---- MODULE Spec2Model ----
(***************************************************************************)
(* A model of the Raycast command "shadcn install": the Command view with  *)
(* its four pieces of React state, the asynchronous fetchComponents runs   *)
(* (one step per await), the normalisation of the three registry shapes,   *)
(* and the actions of the component rows.                                  *)
(*                                                                         *)
(* JSON values are tagged records, so that a value of the wrong type (a    *)
(* number where a string is expected, null where an object is expected) is *)
(* a value the normaliser really meets.  Text built with a template        *)
(* literal is the sequence of its parts.                                   *)
(***************************************************************************)
EXTENDS Integers, Sequences, FiniteSets, TLC

(* ---------------------------------------------------------------------- *)
(* Bounds                                                                 *)
(* ---------------------------------------------------------------------- *)
MaxRuns == 2
MaxLen == 2
MaxPastes == 1

(* ---------------------------------------------------------------------- *)
(* JSON values                                                            *)
(* ---------------------------------------------------------------------- *)
\* scalars: [t, s]
Undef == [t |-> "undefined", s |-> ""]
JNull == [t |-> "null", s |-> ""]
Str(x) == [t |-> "string", s |-> x]
Num(x) == [t |-> "number", s |-> x]

\* JavaScript truthiness of a scalar (the `c.name &&` and `error &&` tests)
Truthy(v) ==
    CASE v.t = "string" -> v.s # ""
      [] v.t = "number" -> v.s \notin {"0", "NaN"}
      [] OTHER -> FALSE

\* an element of a `files` array: a string (Shadcn) or a {path, type} object (Kitze)
FStr(x) == [t |-> "string", s |-> x, path |-> Undef, type |-> Undef]
FObj(p, ty) == [t |-> "object", s |-> "", path |-> p, type |-> ty]
FNull == [t |-> "null", s |-> "", path |-> Undef, type |-> Undef]
\* a scalar standing as an array element (the result of file.path)
AsValue(sc) == [t |-> sc.t, s |-> sc.s, path |-> Undef, type |-> Undef]

\* an array-valued property: absent, or an array of elements
NoArr == [t |-> "undefined", a |-> <<>>]
Arr(seq) == [t |-> "array", a |-> seq]

\* one entry of a registry listing
Obj(name, description, files, type) ==
    [t |-> "object", name |-> name, description |-> description,
     dependencies |-> NoArr, registryDependencies |-> NoArr,
     files |-> files, type |-> type]
NullEntry ==
    [t |-> "null", name |-> Undef, description |-> Undef,
     dependencies |-> NoArr, registryDependencies |-> NoArr,
     files |-> NoArr, type |-> Undef]
WithDeps(e, deps) == [e EXCEPT !.dependencies = deps]

\* the parsed body: an array, an object (with or without `items`), or null
RawArray(seq) == [t |-> "array", a |-> seq, items |-> NoArr]
RawObject(items) == [t |-> "object", a |-> <<>>, items |-> items]
RawNull == [t |-> "null", a |-> <<>>, items |-> NoArr]

(* ---------------------------------------------------------------------- *)
(* Registries (src/registries.ts)                                         *)
(* ---------------------------------------------------------------------- *)
\* The two built-in registries, and one more of the kind the README invites
\* ("Adding New Registries"): it is what reaches the fallback branch.
availableRegistries ==
    { [name |-> "Shadcn UI",
       jsonUrl |-> "https://ui.shadcn.com/registry/index.json",
       componentJsonBaseUrl |-> "https://ui.shadcn.com/registry/components/r/"],
      [name |-> "Kitze UI",
       jsonUrl |-> "https://ui.kitze.io/registry.json",
       componentJsonBaseUrl |-> "https://ui.kitze.io/r/"],
      [name |-> "Other UI",
       jsonUrl |-> "https://other.example/registry.json",
       componentJsonBaseUrl |-> "https://other.example/r/"] }

RegistryNames == {r.name : r \in availableRegistries}
Registry(n) == CHOOSE r \in availableRegistries : r.name = n

(* ---------------------------------------------------------------------- *)
(* Thrown values and messages                                             *)
(* ---------------------------------------------------------------------- *)
Err(parts) == [isError |-> TRUE, message |-> parts]
NotAnError == [isError |-> FALSE, message |-> <<>>]
NoThrow == [isError |-> FALSE, message |-> <<"(nothing thrown)">>]

TypeErrorThrown == Err(<<"TypeError: cannot read properties">>)

\* `HTTP ${response.status}: ${response.statusText} - ${errorBody}`
HttpErrorMessage(status, statusText, errorBody) ==
    <<"HTTP ", status, ": ", statusText, " - ", errorBody>>

\* `Failed to process data structure for registry: ${registry.name}`
FallbackErrorMessage(registryName) ==
    <<"Failed to process data structure for registry: ", registryName>>

\* e instanceof Error ? e.message : "An unknown error occurred"
errorMessage(e) == IF e.isError THEN e.message ELSE <<"An unknown error occurred">>

(* ---------------------------------------------------------------------- *)
(* Normalisation of the parsed body (fetchComponents, after response.json) *)
(* ---------------------------------------------------------------------- *)
UnknownComponent == "Unknown Component"

MapSeq(seq, F(_)) == [i \in 1..Len(seq) |-> F(seq[i])]

\* String(x) of an array element
StringOf(v) ==
    CASE v.t = "string" -> v.s
      [] v.t = "number" -> v.s
      [] v.t = "null" -> "null"
      [] v.t = "undefined" -> "undefined"
      [] OTHER -> "[object Object]"
MapString(arr) == Arr(MapSeq(arr.a, LAMBDA v : FStr(StringOf(v))))

\* "Shadcn UI": the body is the array; the fields are copied as they are.
ShadcnComponent(comp) ==
    [name |-> comp.name,
     description |-> Undef,
     dependencies |-> comp.dependencies,
     registryDependencies |-> comp.registryDependencies,
     files |-> comp.files,
     type |-> comp.type]
\* reading a property of null throws; so does .map on what is not an array
ShadcnThrows(rawData) ==
    \/ rawData.t # "array"
    \/ \E i \in 1..Len(rawData.a) : rawData.a[i].t = "null"

\* "Kitze UI": the body is {items: [...]}; each file object gives its path.
KitzeFiles_TakesType(files) == Arr(MapSeq(files.a, LAMBDA file : AsValue(file.type)))
KitzeFiles(files) == Arr(MapSeq(files.a, LAMBDA file : AsValue(file.path)))
KitzeComponent(comp) ==
    [name |-> comp.name,
     description |-> comp.description,
     dependencies |-> comp.dependencies,
     registryDependencies |-> comp.registryDependencies,
     files |-> KitzeFiles(comp.files),
     type |-> comp.type]
KitzeEntryThrows(comp) ==
    \/ comp.t = "null"
    \/ comp.files.t # "array"
    \/ \E j \in 1..Len(comp.files.a) : comp.files.a[j].t = "null"
KitzeThrows(rawData) ==
    \/ rawData.t = "null"
    \/ rawData.items.t # "array"
    \/ \E i \in 1..Len(rawData.items.a) : KitzeEntryThrows(rawData.items.a[i])

\* Any other registry: a direct array is assumed and every field is coerced.
\* (the earlier `comp.name ?? "Unknown Component"`, which lets any non-null name through)
FallbackComponent_NullishName(comp) ==
    [name |-> IF comp.t = "object" /\ comp.name.t \notin {"undefined", "null"}
              THEN comp.name ELSE Str(UnknownComponent),
     description |-> IF comp.t = "object" /\ comp.description.t = "string"
                     THEN comp.description ELSE Undef,
     files |-> IF comp.t = "object" /\ comp.files.t = "array"
               THEN MapString(comp.files) ELSE Arr(<<>>),
     dependencies |-> IF comp.t = "object" /\ comp.dependencies.t = "array"
                      THEN MapString(comp.dependencies) ELSE NoArr,
     registryDependencies |->
         IF comp.t = "object" /\ comp.registryDependencies.t = "array"
         THEN MapString(comp.registryDependencies) ELSE NoArr,
     type |-> IF comp.t = "object" /\ comp.type.t = "string"
              THEN comp.type ELSE Str("unknown")]
FallbackComponent(comp) ==
    [name |-> IF comp.t = "object" /\ comp.name.t = "string"
              THEN comp.name ELSE Str(UnknownComponent),
     description |-> IF comp.t = "object" /\ comp.description.t = "string"
                     THEN comp.description ELSE Undef,
     files |-> IF comp.t = "object" /\ comp.files.t = "array"
               THEN MapString(comp.files) ELSE Arr(<<>>),
     dependencies |-> IF comp.t = "object" /\ comp.dependencies.t = "array"
                      THEN MapString(comp.dependencies) ELSE NoArr,
     registryDependencies |->
         IF comp.t = "object" /\ comp.registryDependencies.t = "array"
         THEN MapString(comp.registryDependencies) ELSE NoArr,
     type |-> IF comp.t = "object" /\ comp.type.t = "string"
              THEN comp.type ELSE Str("unknown")]
FallbackThrows(rawData) == rawData.t # "array"

\* processedComponents.filter((c) => c && c.name && c.name !== "Unknown Component")
Valid_KeepsSentinel(c) == Truthy(c.name)
Valid(c) == Truthy(c.name) /\ c.name # Str(UnknownComponent)
validComponents(processedComponents) == SelectSeq(processedComponents, Valid)

Thrown(e) == [ok |-> FALSE, comps |-> <<>>, thrown |-> e]
Loaded(comps) == [ok |-> TRUE, comps |-> comps, thrown |-> NoThrow]

\* the synchronous part between `await response.json()` and setComponents
Normalize(registryName, rawData) ==
    IF registryName = "Shadcn UI" THEN
        IF ShadcnThrows(rawData) THEN Thrown(TypeErrorThrown)
        ELSE Loaded(validComponents(MapSeq(rawData.a, ShadcnComponent)))
    ELSE IF registryName = "Kitze UI" THEN
        IF KitzeThrows(rawData) THEN Thrown(TypeErrorThrown)
        ELSE Loaded(validComponents(MapSeq(rawData.items.a, KitzeComponent)))
    ELSE
        IF FallbackThrows(rawData)
        THEN Thrown(Err(FallbackErrorMessage(registryName)))
        ELSE Loaded(validComponents(MapSeq(rawData.a, FallbackComponent)))

(* ---------------------------------------------------------------------- *)
(* What the outside world may answer                                      *)
(* ---------------------------------------------------------------------- *)
SeqsUpTo(S, n) == UNION {[1..k -> S] : k \in 0..n}

ButtonEntry ==
    WithDeps(Obj(Str("button"), Undef,
                 Arr(<<FStr("ui/button.tsx"), FStr("ui/button.css")>>),
                 Str("components:ui")),
             Arr(<<FStr("react")>>))
CardEntry ==
    Obj(Str("card"), Str("A card"),
        Arr(<<FObj(Str("registry/card.tsx"), Str("registry:ui")),
              FObj(Str("registry/card.css"), Str("registry:file"))>>),
        Str("registry:ui"))
EmptyNameEntry == Obj(Str(""), Undef, Arr(<<FStr("ui/x.tsx")>>), Str("components:ui"))
NoNameEntry ==
    Obj(Undef, Str("nameless"), Arr(<<FObj(Str("registry/y.tsx"), Str("registry:ui"))>>),
        Str("registry:ui"))
SentinelEntry == Obj(Str(UnknownComponent), Undef, Arr(<<FStr("ui/u.tsx")>>), Str("components:ui"))
NumberNameEntry == Obj(Num("5"), Undef, Arr(<<FStr("ui/n.tsx"), FNull>>), Num("7"))

EntryPool ==
    {ButtonEntry, CardEntry, EmptyNameEntry, NoNameEntry, SentinelEntry,
     NumberNameEntry, NullEntry}

\* what response.json() may resolve to
BodyPool ==
    {RawArray(seq) : seq \in SeqsUpTo(EntryPool, MaxLen)}
    \cup {RawObject(Arr(seq)) : seq \in SeqsUpTo(EntryPool, MaxLen)}
    \cup {RawObject(NoArr), RawNull}

\* the bodies the whole-program specification draws from: a flat array, a nested
\* listing, an empty array, and an array with one malformed entry
FewBodies ==
    {RawArray(<<ButtonEntry>>), RawObject(Arr(<<CardEntry>>)), RawArray(<<>>),
     RawArray(<<ButtonEntry, NullEntry>>)}

\* non-success responses: status, statusText
FailureStatuses == {<<"404", "Not Found">>, <<"500", "Internal Server Error">>}
ErrorBodies == {"registry unavailable"}

FetchRejections == {Err(<<"request to registry failed">>), NotAnError}
JsonRejections == {Err(<<"invalid json response body">>)}
ToastRejections == {Err(<<"could not show toast">>)}
ClipboardRejections == {Err(<<"could not paste">>)}

(* ---------------------------------------------------------------------- *)
(* State                                                                  *)
(* ---------------------------------------------------------------------- *)
VARIABLES
    selectedRegistry,   \* useState<Registry | null>: a registry name or Null
    components,         \* useState<Component[]>
    isLoading,          \* useState<boolean>
    error,              \* useState<string | null>
    runs,               \* the calls of fetchComponents, in the order they started
    pastes              \* the pending calls of handlePasteComponentUrl, oldest first

vars == <<selectedRegistry, components, isLoading, error, runs, pastes>>

Null == "<null>"
NullError == [t |-> "null", msg |-> <<>>]
Message(parts) == [t |-> "string", msg |-> parts]
\* `error &&`: a string is truthy unless it is empty
ErrorTruthy(e) == e.t = "string" /\ \E i \in 1..Len(e.msg) : e.msg[i] # ""

NewRun(registryName) ==
    [registry |-> registryName, pc |-> "toastFetching", status |-> "", statusText |-> "",
     rawData |-> RawNull, failure |-> "none", toasts |-> {"Animated"}, loaded |-> FALSE, rejected |-> FALSE]

Init ==
    /\ selectedRegistry = Null
    /\ components = <<>>
    /\ isLoading = FALSE
    /\ error = NullError
    /\ runs = <<>>
    /\ pastes = <<>>

Runs == 1..Len(runs)
At(r, pc) == r \in Runs /\ runs[r].pc = pc

(* ---------------------------------------------------------------------- *)
(* What is rendered                                                       *)
(* ---------------------------------------------------------------------- *)
RegistryListShown == selectedRegistry = Null
ComponentViewShown == selectedRegistry # Null
\* one row per component; the actions of the panel belong to a row
RowsShown == IF ComponentViewShown THEN 1..Len(components) ELSE {}
GoBackAvailable_WholeView == ComponentViewShown
\* "Go Back to Registries" is an action of the rows' panel
GoBackAvailable == RowsShown # {}
\* {error && <List.EmptyView title="Error Fetching Components" .../>}
ErrorPanelRendered == ComponentViewShown /\ ErrorTruthy(error)
NoComponentsPanelShown ==
    /\ ComponentViewShown
    /\ ~ErrorTruthy(error) /\ Len(components) = 0 /\ ~isLoading

(* ---------------------------------------------------------------------- *)
(* fetchComponents                                                        *)
(* ---------------------------------------------------------------------- *)
\* the run in its catch block, awaiting the failure toast it has requested
Caught(r, kind) ==
    [runs EXCEPT ![r].pc = "toastFailure",
                 ![r].failure = kind,
                 ![r].toasts = @ \cup {"Failure"}]

\* catch (e): setError(errorMessage); await showToast(Failure)
Catch(r, e, kind) ==
    /\ error' = Message(errorMessage(e))
    /\ runs' = Caught(r, kind)

Finally_KeepsLoading(r, rejects) ==
    /\ UNCHANGED isLoading
    /\ runs' = [runs EXCEPT ![r].pc = "done", ![r].rejected = rejects,
                            ![r].registry = "", ![r].rawData = RawNull]

\* finally: setIsLoading(false); the run is over and its locals are gone
Finally(r, rejects) ==
    /\ isLoading' = FALSE
    /\ runs' = [runs EXCEPT ![r].pc = "done", ![r].rejected = rejects,
                            ![r].registry = "", ![r].rawData = RawNull]

\* handleSelectRegistry, and fetchComponents up to its first await
handleSelectRegistry(registryName) ==
    /\ RegistryListShown
    /\ Len(runs) < MaxRuns
    /\ selectedRegistry' = registryName
    /\ isLoading' = TRUE
    /\ error' = NullError
    /\ components' = <<>>
    /\ runs' = Append(runs, NewRun(registryName))
    /\ UNCHANGED pastes

\* the "Fetching from ..." toast resolved: fetch(url) is called
FetchingToastResolved(r) ==
    /\ At(r, "toastFetching")
    /\ runs' = [runs EXCEPT ![r].pc = "fetch"]
    /\ UNCHANGED <<selectedRegistry, components, isLoading, error, pastes>>

FetchingToastRejected(r, e) ==
    /\ At(r, "toastFetching")
    /\ Catch(r, e, "toast")
    /\ UNCHANGED <<selectedRegistry, components, isLoading, pastes>>

\* fetch resolved with response.ok: response.json() is called
FetchResolvedOk(r) ==
    /\ At(r, "fetch")
    /\ runs' = [runs EXCEPT ![r].pc = "json"]
    /\ UNCHANGED <<selectedRegistry, components, isLoading, error, pastes>>

\* fetch resolved with !response.ok: response.text() is called
FetchResolvedNotOk(r, st) ==
    /\ At(r, "fetch")
    /\ runs' = [runs EXCEPT ![r].pc = "text", ![r].status = st[1], ![r].statusText = st[2]]
    /\ UNCHANGED <<selectedRegistry, components, isLoading, error, pastes>>

FetchRejected(r, e) ==
    /\ At(r, "fetch")
    /\ Catch(r, e, "transport")
    /\ UNCHANGED <<selectedRegistry, components, isLoading, pastes>>

\* the body of a failed response was read, or could not be: the HTTP error is thrown
ThrowHttpError(r, errorBody) ==
    Catch(r, Err(HttpErrorMessage(runs[r].status, runs[r].statusText, errorBody)), "http")

TextResolved(r, body) ==
    /\ At(r, "text")
    /\ ThrowHttpError(r, body)
    /\ UNCHANGED <<selectedRegistry, components, isLoading, pastes>>

TextRejected(r) ==
    /\ At(r, "text")
    /\ ThrowHttpError(r, "Unknown error")
    /\ UNCHANGED <<selectedRegistry, components, isLoading, pastes>>

\* response.json() resolved: normalise, filter, setComponents, success toast
JsonResolved(r, rawData) ==
    /\ At(r, "json")
    /\ LET res == Normalize(runs[r].registry, rawData) IN
         IF res.ok
         THEN /\ components' = res.comps
              /\ runs' = [runs EXCEPT ![r].pc = "toastSuccess",
                                      ![r].rawData = rawData,
                                      ![r].loaded = TRUE,
                                      ![r].toasts = @ \cup {"Success"}]
              /\ UNCHANGED error
         ELSE /\ error' = Message(errorMessage(res.thrown))
              /\ runs' = [Caught(r, "shape") EXCEPT ![r].rawData = rawData]
              /\ UNCHANGED components
    /\ UNCHANGED <<selectedRegistry, isLoading, pastes>>

JsonRejected(r, e) ==
    /\ At(r, "json")
    /\ Catch(r, e, "json")
    /\ UNCHANGED <<selectedRegistry, components, isLoading, pastes>>

SuccessToastResolved(r) ==
    /\ At(r, "toastSuccess")
    /\ Finally(r, FALSE)
    /\ UNCHANGED <<selectedRegistry, components, error, pastes>>

SuccessToastRejected(r, e) ==
    /\ At(r, "toastSuccess")
    /\ Catch(r, e, "toast")
    /\ UNCHANGED <<selectedRegistry, components, isLoading, pastes>>

FailureToastResolved(r) ==
    /\ At(r, "toastFailure")
    /\ Finally(r, FALSE)
    /\ UNCHANGED <<selectedRegistry, components, error, pastes>>

\* the toast of the catch block is not itself guarded: finally runs, the promise rejects
FailureToastRejected(r) ==
    /\ At(r, "toastFailure")
    /\ Finally(r, TRUE)
    /\ UNCHANGED <<selectedRegistry, components, error, pastes>>

(* ---------------------------------------------------------------------- *)
(* The actions of a component row                                         *)
(* ---------------------------------------------------------------------- *)
handleGoBack_KeepsComponents ==
    /\ GoBackAvailable
    /\ selectedRegistry' = Null
    /\ error' = NullError
    /\ UNCHANGED <<components, isLoading, runs, pastes>>

handleGoBack ==
    /\ GoBackAvailable
    /\ selectedRegistry' = Null
    /\ components' = <<>>
    /\ error' = NullError
    /\ UNCHANGED <<isLoading, runs, pastes>>

\* `${registry.componentJsonBaseUrl}${componentName}.json`
componentJsonUrl(registryName, componentName) ==
    <<Registry(registryName).componentJsonBaseUrl, StringOf(componentName), ".json">>

\* content of "Paste Install Command (with URL)"
PasteInstallContent(registryName, componentName) ==
    <<"npx ", "shadcn-ui@latest", " add ">> \o componentJsonUrl(registryName, componentName)

\* content of "Copy Install Command (name only)"
CopyInstallContent(componentName) ==
    <<"npx ", "shadcn-ui@latest", " add ", StringOf(componentName)>>

(* ---------------------------------------------------------------------- *)
(* handlePasteComponentUrl                                                *)
(* ---------------------------------------------------------------------- *)
\* The handler is the primary action of a row ("Paste Component JSON URL") in the
\* first version of the view; the second version keeps the handler and renders
\* Action.Paste and Action.CopyToClipboard with the install commands above.
Pastes == 1..Len(pastes)
PasteAt(p, pc) == p \in Pastes /\ pastes[p].pc = pc

\* (componentJsonUrl(registryName, componentName) is handed to Clipboard.paste and
\* to the toast; it is no part of the state of the view)
NewPaste(registryName, componentName) ==
    [pc |-> "paste", failure |-> "none", toasts |-> {}, closeCalled |-> FALSE]

\* the handler has returned: the call is no longer pending
Returned(p) == [q \in 1..(Len(pastes) - 1) |-> IF q < p THEN pastes[q] ELSE pastes[q + 1]]

PasteCatch_Silent(p, kind) ==
    pastes' = [pastes EXCEPT ![p].pc = "toastFailure", ![p].failure = kind]

\* catch (_error): await showToast(Failure)
PasteCatch(p, kind) ==
    pastes' = [pastes EXCEPT ![p].pc = "toastFailure",
                             ![p].failure = kind,
                             ![p].toasts = @ \cup {"Failure"}]

\* the handler up to its first await: Clipboard.paste(componentJsonUrl) is called
\* (at most MaxPastes calls are pending at a time)
handlePasteComponentUrl(i) ==
    /\ i \in RowsShown
    /\ Len(pastes) < MaxPastes
    /\ pastes' = Append(pastes, NewPaste(selectedRegistry, components[i].name))
    /\ UNCHANGED <<selectedRegistry, components, isLoading, error, runs>>

ClipboardPasteResolved(p) ==
    /\ PasteAt(p, "paste")
    /\ pastes' = [pastes EXCEPT ![p].pc = "toastSuccess", ![p].toasts = @ \cup {"Success"}]
    /\ UNCHANGED <<selectedRegistry, components, isLoading, error, runs>>

ClipboardPasteRejected(p, e) ==
    /\ PasteAt(p, "paste")
    /\ PasteCatch(p, "paste")
    /\ UNCHANGED <<selectedRegistry, components, isLoading, error, runs>>

\* the "Pasted Component URL" toast resolved: closeMainWindow() is called
PasteToastResolved(p) ==
    /\ PasteAt(p, "toastSuccess")
    /\ pastes' = [pastes EXCEPT ![p].pc = "close", ![p].closeCalled = TRUE]
    /\ UNCHANGED <<selectedRegistry, components, isLoading, error, runs>>

PasteToastRejected(p, e) ==
    /\ PasteAt(p, "toastSuccess")
    /\ PasteCatch(p, "toast")
    /\ UNCHANGED <<selectedRegistry, components, isLoading, error, runs>>

CloseResolved(p) ==
    /\ PasteAt(p, "close")
    /\ pastes' = Returned(p)
    /\ UNCHANGED <<selectedRegistry, components, isLoading, error, runs>>

CloseRejected(p, e) ==
    /\ PasteAt(p, "close")
    /\ PasteCatch(p, "close")
    /\ UNCHANGED <<selectedRegistry, components, isLoading, error, runs>>

\* the toast of the catch block settles, either way: the handler is over
PasteFailureToastSettled(p) ==
    /\ PasteAt(p, "toastFailure")
    /\ pastes' = Returned(p)
    /\ UNCHANGED <<selectedRegistry, components, isLoading, error, runs>>

(* ---------------------------------------------------------------------- *)
(* Specification                                                          *)
(* ---------------------------------------------------------------------- *)
Next ==
    \/ \E n \in RegistryNames : handleSelectRegistry(n)
    \/ \E r \in Runs : FetchingToastResolved(r)
    \/ \E r \in Runs, e \in ToastRejections : FetchingToastRejected(r, e)
    \/ \E r \in Runs : FetchResolvedOk(r)
    \/ \E r \in Runs, st \in FailureStatuses : FetchResolvedNotOk(r, st)
    \/ \E r \in Runs, e \in FetchRejections : FetchRejected(r, e)
    \/ \E r \in Runs, body \in ErrorBodies : TextResolved(r, body)
    \/ \E r \in Runs : TextRejected(r)
    \/ \E r \in Runs, rawData \in FewBodies : JsonResolved(r, rawData)
    \/ \E r \in Runs, e \in JsonRejections : JsonRejected(r, e)
    \/ \E r \in Runs : SuccessToastResolved(r)
    \/ \E r \in Runs, e \in ToastRejections : SuccessToastRejected(r, e)
    \/ \E r \in Runs : FailureToastResolved(r)
    \/ \E r \in Runs : FailureToastRejected(r)
    \/ handleGoBack
    \/ \E i \in RowsShown : handlePasteComponentUrl(i)
    \/ \E p \in Pastes : ClipboardPasteResolved(p)
    \/ \E p \in Pastes, e \in ClipboardRejections : ClipboardPasteRejected(p, e)
    \/ \E p \in Pastes : PasteToastResolved(p)
    \/ \E p \in Pastes, e \in ToastRejections : PasteToastRejected(p, e)
    \/ \E p \in Pastes : CloseResolved(p)
    \/ \E p \in Pastes, e \in ToastRejections : CloseRejected(p, e)
    \/ \E p \in Pastes : PasteFailureToastSettled(p)

Spec == Init /\ [][Next]_vars

(* ---------------------------------------------------------------------- *)
(* One fetch, from the moment its response is being parsed, with every    *)
(* body of BodyPool: the specification of the claims about normalisation. *)
(* ---------------------------------------------------------------------- *)
NormalizeInit ==
    /\ selectedRegistry \in RegistryNames
    /\ components = <<>>
    /\ isLoading = TRUE
    /\ error = NullError
    /\ runs = <<[NewRun(selectedRegistry) EXCEPT !.pc = "json"]>>
    /\ pastes = <<>>

NormalizeNext ==
    \/ \E rawData \in BodyPool : JsonResolved(1, rawData)
    \/ \E e \in JsonRejections : JsonRejected(1, e)
    \/ SuccessToastResolved(1)
    \/ \E e \in ToastRejections : SuccessToastRejected(1, e)
    \/ FailureToastResolved(1)
    \/ FailureToastRejected(1)
    \/ handleGoBack

SpecNormalize == NormalizeInit /\ [][NormalizeNext]_vars

(* ====================================================================== *)
(* Claims                                                                 *)
(* ====================================================================== *)

\* the step in which run r leaves `await response.json()` with a parsed body
Parsed(r) ==
    /\ runs[r].pc = "json"
    /\ runs'[r].pc \in {"toastSuccess", "toastFailure"}
    /\ runs'[r].failure # "json"

NameAndFiles(seq) == [i \in 1..Len(seq) |-> <<seq[i].name, seq[i].files>>]
HasNonEmptyName(e) == e.name.t = "string" /\ e.name.s # ""
HasUsableName(e) == HasNonEmptyName(e) /\ e.name.s # UnknownComponent

\* a flat array as the Shadcn index publishes it: objects whose name, when there
\* is one, is a string and whose files are strings
WellFormedFlat(rawData) ==
    /\ rawData.t = "array"
    /\ \A i \in 1..Len(rawData.a) :
         LET e == rawData.a[i] IN
           /\ e.t = "object"
           /\ e.name.t \in {"string", "undefined"}
           /\ e.files.t = "array"
           /\ \A j \in 1..Len(e.files.a) : e.files.a[j].t = "string"

\* a nested listing as the Kitze registry publishes it: {items: [...]} of objects
\* whose files are {path, type} objects with string paths
WellFormedNested(rawData) ==
    /\ rawData.t = "object"
    /\ rawData.items.t = "array"
    /\ \A i \in 1..Len(rawData.items.a) :
         LET e == rawData.items.a[i] IN
           /\ e.t = "object"
           /\ e.name.t \in {"string", "undefined"}
           /\ e.files.t = "array"
           /\ \A j \in 1..Len(e.files.a) :
                /\ e.files.a[j].t = "object"
                /\ e.files.a[j].path.t = "string"

\* C1 as stated: in the "Shadcn UI" branch, for a well-formed array, the components
\* set by the fetch are exactly the entries with a non-empty string name, in
\* upstream order, each with its files as given.
C1_AsStated ==
    [][\A r \in Runs :
         (Parsed(r) /\ runs[r].registry = "Shadcn UI" /\ WellFormedFlat(runs'[r].rawData))
         => /\ runs'[r].pc = "toastSuccess"
            /\ NameAndFiles(components')
                 = NameAndFiles(SelectSeq(runs'[r].rawData.a, HasNonEmptyName))]_vars

\* C1 (amended): in the "Shadcn UI" branch, for a well-formed array, the components
\* set by the fetch are exactly the entries whose name is a non-empty string other
\* than "Unknown Component", in upstream order, each with its files as given.
C1_FlatEntriesKept ==
    [][\A r \in Runs :
         (Parsed(r) /\ runs[r].registry = "Shadcn UI" /\ WellFormedFlat(runs'[r].rawData))
         => /\ runs'[r].pc = "toastSuccess"
            /\ NameAndFiles(components')
                 = NameAndFiles(SelectSeq(runs'[r].rawData.a, HasUsableName))]_vars

\* a Shadcn fetch has set components from a well-formed array of two entries, one
\* kept with its two files and one dropped
C1_Witness ==
    \E r \in Runs :
      /\ runs[r].pc = "toastSuccess" /\ runs[r].registry = "Shadcn UI"
      /\ WellFormedFlat(runs[r].rawData)
      /\ Len(runs[r].rawData.a) = 2 /\ Len(components) = 1
      /\ Len(components[1].files.a) = 2

\* the paths of the file objects of an entry, as strings
PathsOf(e) == Arr([j \in 1..Len(e.files.a) |-> FStr(e.files.a[j].path.s)])

\* C2: in the "Kitze UI" branch, for a well-formed {items: [...]}, the files of each
\* normalised component are the path fields of its item's file objects: as many,
\* in the same order, and nothing else of the file object.
C2_NestedPathsExtracted ==
    [][\A r \in Runs :
         (Parsed(r) /\ runs[r].registry = "Kitze UI" /\ WellFormedNested(runs'[r].rawData))
         => LET kept == SelectSeq(runs'[r].rawData.items.a, HasUsableName) IN
              /\ runs'[r].pc = "toastSuccess"
              /\ Len(components') = Len(kept)
              /\ \A k \in 1..Len(kept) :
                    /\ components'[k].name = kept[k].name
                    /\ components'[k].files = PathsOf(kept[k])]_vars

\* a Kitze fetch has set a component whose item has two file objects
C2_Witness ==
    \E r \in Runs :
      /\ runs[r].pc = "toastSuccess" /\ runs[r].registry = "Kitze UI"
      /\ WellFormedNested(runs[r].rawData)
      /\ Len(components) >= 1
      /\ Len(components[1].files.a) = 2
      /\ components[1].files.a[1] # components[1].files.a[2]

\* C3: no element of components has a missing or empty name or the name "Unknown
\* Component", whatever the branch; in the fallback branch every entry whose name
\* is not a string is given the sentinel, so that the components shown by the
\* latest fetch are exactly the entries with a usable string name.
C3_NamesMeaningful ==
    /\ \A i \in 1..Len(components) :
         /\ components[i].name.t \notin {"undefined", "null"}
         /\ components[i].name # Str("")
         /\ components[i].name # Str(UnknownComponent)
    /\ \A r \in Runs :
         (/\ r = Len(runs)
          /\ runs[r].pc = "toastSuccess"
          /\ runs[r].registry \notin {"Shadcn UI", "Kitze UI"}
          /\ ComponentViewShown)
         => /\ \A i \in 1..Len(components) : components[i].name.t = "string"
            /\ Len(components) = Len(SelectSeq(runs[r].rawData.a, HasUsableName))

\* a fallback fetch dropped an entry whose name is not a string and kept another
C3_Witness ==
    \E r \in Runs :
      /\ runs[r].pc = "toastSuccess"
      /\ runs[r].registry \notin {"Shadcn UI", "Kitze UI"}
      /\ \E i \in 1..Len(runs[r].rawData.a) : runs[r].rawData.a[i].name.t = "number"
      /\ Len(components) = 1

\* the message names the status code and the status text of the response
NamesStatus(msg, status, statusText) ==
    /\ \E i \in 1..Len(msg) : msg[i] = status
    /\ \E i \in 1..Len(msg) : msg[i] = statusText

\* the step in which run r ends (its finally block has run)
Ends(r) == runs[r].pc # "done" /\ runs'[r].pc = "done"

\* C4: a fetch whose response has a non-success status ends with error set to a
\* message that contains the status code and the status text, whether or not the
\* body could be read, and has not populated components.
C4_HttpFailureShowsStatus ==
    [][\A r \in Runs :
         (Ends(r) /\ runs[r].failure = "http")
         => /\ error'.t = "string"
            /\ NamesStatus(error'.msg, runs[r].status, runs[r].statusText)
            /\ ~runs[r].loaded]_vars

\* the failures of fetchComponents that C5 lists
ListedFailures == {"transport", "http", "json", "shape"}

GoBackTaken == GoBackAvailable /\ runs' = runs /\ pastes' = pastes /\ vars' # vars

\* C6: handleGoBack yields selectedRegistry = null, components = [], error = null.
C6_GoBackClears ==
    [][GoBackTaken
         => selectedRegistry' = Null /\ components' = <<>> /\ error' = NullError]_vars

\* back was taken from a view that showed components
C6_Witness ==
    /\ selectedRegistry = Null /\ components = <<>> /\ error = NullError
    /\ \E r \in Runs : runs[r].loaded

\* no run of fetchComponents is in progress
Settled == \A r \in Runs : runs[r].pc = "done"

\* C7 as stated: in every settled state of the component view, Loaded or Errored,
\* the "back" action is available to the user.
C7_BackFromLoadedOrErrored ==
    (ComponentViewShown /\ Settled) => GoBackAvailable

\* the step in which the Clipboard.paste of call p is rejected
PasteFails(p) ==
    /\ pastes[p].pc = "paste"
    /\ Len(pastes') = Len(pastes)
    /\ pastes'[p].pc # "paste"
    /\ pastes'[p].failure = "paste"

\* C8: when Clipboard.paste fails in handlePasteComponentUrl, a failure toast is
\* requested, closeMainWindow is not called, then or later, and selectedRegistry,
\* components, error and isLoading are left as they were.
C8_PasteFailureCaught ==
    [][/\ \A p \in Pastes :
            PasteFails(p)
            => /\ "Failure" \in pastes'[p].toasts
               /\ UNCHANGED <<selectedRegistry, components, error, isLoading>>
       /\ \A p \in 1..Len(pastes') :
            pastes'[p].failure = "paste"
            => ~pastes'[p].closeCalled /\ pastes'[p].pc = "toastFailure"]_vars

\* the paste has failed and its failure toast is being shown
C8_Witness ==
    \E p \in Pastes :
      /\ pastes[p].pc = "toastFailure" /\ pastes[p].failure = "paste"
      /\ "Failure" \in pastes[p].toasts /\ ~pastes[p].closeCalled

\* the form the README gives: npx shadcn@latest add [component-name] --registry [registry-url]
ReadmeForm(text, registryName, componentName) ==
    \E url \in {Registry(registryName).jsonUrl, Registry(registryName).componentJsonBaseUrl} :
      text = <<"npx ", "shadcn@latest", " add ", StringOf(componentName), " --registry ", url>>

\* C9 as stated: for every row shown, the install commands of its action panel
\* have the form of the README.
C9_InstallCommandForm ==
    \A i \in RowsShown :
      /\ ReadmeForm(PasteInstallContent(selectedRegistry, components[i].name),
                    selectedRegistry, components[i].name)
      /\ ReadmeForm(CopyInstallContent(components[i].name),
                    selectedRegistry, components[i].name)

\* the runs whose request is outstanding: fetch(url) was called and has not settled
Outstanding == {r \in Runs : runs[r].pc = "fetch"}

\* C10: at most one request of fetchComponents is outstanding at any time.
C10_OneRequestOutstanding == Cardinality(Outstanding) <= 1

\* a request is outstanding while an earlier run is still pending
C10_Witness ==
    \E r1, r2 \in Runs :
      /\ r1 < r2
      /\ runs[r1].pc \in {"toastSuccess", "toastFailure"}
      /\ runs[r2].pc = "fetch"

\* run r has started and has not finished
InProgress(r) == runs[r].pc # "done"

\* the step is one of run r, an earlier run than the latest selection's
StaleRunSteps(r) == r < Len(runs) /\ Len(runs') = Len(runs) /\ runs'[r] # runs[r]

\* C11 as stated: once a selection has started a new run, no step of an earlier
\* run changes the displayed components, error or loading flag.
C11_StaleRunWritesNothing ==
    [][\A r \in Runs :
         StaleRunSteps(r) => UNCHANGED <<components, error, isLoading>>]_vars

\* C12 as stated: isLoading is true exactly while some run of fetchComponents has
\* started and not finished, and the "No Components Found" panel is never shown
\* while the fetch of the latest selection is in progress.
C12_LoadingAccurate ==
    /\ isLoading <=> (\E r \in Runs : InProgress(r))
    /\ NoComponentsPanelShown => ~(Runs # {} /\ InProgress(Len(runs)))

\* C13 as stated: components is never non-empty while error is non-null.
C13_LoadedOrErrored ==
    ~(Len(components) > 0 /\ error # NullError)

\* C14 as stated: while no registry is selected, components is empty and error is
\* null.
C14_UnselectedIsClean ==
    RegistryListShown => (components = <<>> /\ error = NullError)

====
